---- MODULE Spec2Model ----
(***************************************************************************)
(* Model of solar-cast's forecast synchronisation and performance          *)
(* estimation (src/main.py): update_forecast_data, get_solcast_forecast    *)
(* and calculate_plant_performance over the Plant, Forecast and            *)
(* PlantPerformance tables.                                                *)
(*                                                                         *)
(* Numbers.  The code computes with floats.  Here irradiance is counted in *)
(* units of 100 W/m^2, the trigonometric values are fixed-point integers   *)
(* floor(TrigScale * x) of the float the code computes (floor keeps the    *)
(* sign of every value, also of cos(radians(270)) = -1.8e-16), and an      *)
(* expected_output e stands for e / (2 * 10^8) kWh: the factors 1/2, 0.2,  *)
(* 0.15 and 1/1000 of the formula are folded into that unit.               *)
(*                                                                         *)
(* Timestamps are hours since 2024-01-01 00:00, dates are days since       *)
(* 2024-01-01.                                                             *)
(***************************************************************************)
EXTENDS Integers, Sequences, FiniteSets, TLC

VARIABLES
    plants,         \* Plant table, in the order Plant.query.all() returns it
    forecast,       \* Forecast table as committed (what other readers see)
    session,        \* Forecast table as db.session sees it (with pending rows)
    performance,    \* PlantPerformance table as committed
    perf_session,   \* PlantPerformance table as db.session sees it
    pc,             \* position of the running pass
    i,              \* index of the plant of the current loop iteration
    malformed,      \* history: the last list fetched held a malformed point
    today,          \* datetime.now().date() of the running performance pass
    calls,          \* history: provider calls per plant in this sync pass
    got,            \* history: how the provider call for each plant ended
    touched,        \* history: (plant, timestamp) keys reconciled in this pass
    outcome,        \* history: how the last pass ended
    sync_passes,    \* history: sync passes started
    perf_passes,    \* history: committed performance passes per date
    runs            \* overlapping sync passes: position and session of each

vars == <<plants, forecast, session, performance, perf_session, pc, i,
          malformed, today, calls, got, touched, outcome, sync_passes,
          perf_passes, runs>>

-----------------------------------------------------------------------------
(* Bounds *)

\* longest 'forecasts' list of a provider response
MaxLen == 2
\* sync passes per behaviour
MaxSyncPasses == 2
\* performance passes per behaviour
MaxPerfPasses == 2
\* last date a performance pass can run on
MaxDay == 1

-----------------------------------------------------------------------------
(* Values *)

\* The largest element of a non-empty set of integers.
Max(S) == CHOOSE x \in S : \A y \in S : y <= x

\* datetime.fromisoformat(data['period_end']): the parsed timestamp, or a
\* ValueError for a string that is no ISO-8601 date.  Two spellings of the
\* same instant parse to the same timestamp.
fromisoformat(s) ==
    CASE s = "2024-01-01T00:00:00" -> [raised |-> FALSE, value |-> 0]
      [] s = "2024-01-01 00:00:00" -> [raised |-> FALSE, value |-> 0]
      [] s = "2024-01-02T00:00:00" -> [raised |-> FALSE, value |-> 24]
      [] OTHER -> [raised |-> TRUE, value |-> 0]

\* The measured fields, in the order the code reads them from a point.
Measured == <<"ghi", "dni", "dhi", "air_temp", "cloud_opacity">>

V1 == [ghi |-> 5, dni |-> 6, dhi |-> 1, air_temp |-> 20, cloud_opacity |-> 0]
V2 == [ghi |-> 1, dni |-> 0, dhi |-> 2, air_temp |-> 15, cloud_opacity |-> 90]

WirePoint(s, v) ==
    [period_end |-> s, ghi |-> v.ghi, dni |-> v.dni, dhi |-> v.dhi,
     air_temp |-> v.air_temp, cloud_opacity |-> v.cloud_opacity]

\* Points a provider response can hold: well-formed ones, one without
\* 'cloud_opacity' and one whose period_end does not parse.
WellFormedPoints ==
    { WirePoint("2024-01-01T00:00:00", V1),
      WirePoint("2024-01-01 00:00:00", V2),
      WirePoint("2024-01-02T00:00:00", V1) }

MalformedPoints ==
    { [period_end |-> "2024-01-01T00:00:00", ghi |-> 1, dni |-> 0, dhi |-> 2,
       air_temp |-> 15],
      WirePoint("tomorrow", V2) }

Points == WellFormedPoints \cup MalformedPoints

SeqsUpTo(S, n) == UNION { [1..k -> S] : k \in 0..n }

\* What requests.get can produce: no response at all (status 0: it raises a
\* ConnectionError), a status other than 200, a 200 whose JSON body has no
\* 'forecasts' key, or a 200 with a 'forecasts' list.
Responses ==
    { [status |-> 0, body |-> [message |-> "no response"]],
      [status |-> 500, body |-> [message |-> "server error"]],
      [status |-> 200, body |-> [message |-> "no forecasts"]] }
    \cup { [status |-> 200, body |-> [forecasts |-> fs]] :
             fs \in SeqsUpTo(Points, MaxLen) }

-----------------------------------------------------------------------------
(* Provider client *)

\* get_solcast_forecast: raises when requests.get raises or when the body
\* of a 200 has no 'forecasts'; returns None (after logging) for any status
\* other than 200; returns the 'forecasts' list otherwise, unvalidated.
get_solcast_forecast(response) ==
    IF response.status = 0
    THEN [raised |-> TRUE, is_none |-> FALSE, value |-> <<>>]
    ELSE IF response.status = 200
         THEN IF "forecasts" \in DOMAIN response.body
              THEN [raised |-> FALSE, is_none |-> FALSE,
                    value |-> response.body.forecasts]
              ELSE [raised |-> TRUE, is_none |-> FALSE, value |-> <<>>]
         ELSE [raised |-> FALSE, is_none |-> TRUE, value |-> <<>>]

\* 'if forecast_data:' is false for None and for an empty list.
Truthy(result) == ~result.is_none /\ Len(result.value) > 0

-----------------------------------------------------------------------------
(* Reconciler: the body of the inner loop of update_forecast_data *)

\* filter_by_committed: the lookup without autoflush, which sees only the
\* committed rows.
filter_by_committed(table, plant_id, timestamp) ==
    { r \in table \cap forecast :
        r.plant_id = plant_id /\ r.timestamp = timestamp }

\* filter_by_timestamp: the lookup without its plant_id condition.
filter_by_timestamp(table, plant_id, timestamp) ==
    { r \in table : r.timestamp = timestamp }

\* Forecast.query.filter_by(plant_id=..., timestamp=...): the matching rows
\* of the table as the session sees it (the query autoflushes pending rows).
filter_by(table, plant_id, timestamp) ==
    { r \in table : r.plant_id = plant_id /\ r.timestamp = timestamp }

\* .first(): the matching row with the least id.
first(rows) == CHOOSE r \in rows : \A q \in rows : r.id <= q.id

\* Integer primary key of a new row: one more than the largest in the table.
NextId(table) == IF table = {} THEN 1 ELSE Max({ r.id : r \in table }) + 1

\* How many of the measured fields are read from a point before a missing
\* key raises KeyError (all five when none is missing).
NRead(data) ==
    IF \A k \in 1..Len(Measured) : Measured[k] \in DOMAIN data
    THEN Len(Measured)
    ELSE CHOOSE n \in 0..(Len(Measured) - 1) :
            /\ Measured[n + 1] \notin DOMAIN data
            /\ \A k \in 1..n : Measured[k] \in DOMAIN data

\* OverwriteFour: the overwrite without its last assignment, cloud_opacity
\* left as it was.
OverwriteFour(row, data) ==
    [f \in DOMAIN row |->
        IF \E k \in 1..NRead(data) : Measured[k] = f /\ k < Len(Measured)
        THEN data[f]
        ELSE row[f]]

\* existing_forecast.ghi = data['ghi'] ... .cloud_opacity = data[...]: the
\* assignments made, in order, until a key is missing.
Overwrite(row, data) ==
    [f \in DOMAIN row |->
        IF \E k \in 1..NRead(data) : Measured[k] = f THEN data[f] ELSE row[f]]

\* Forecast(plant_id=..., timestamp=..., ghi=..., ...): built only when all
\* arguments evaluate.
NewForecast(id, plant_id, timestamp, data) ==
    [id |-> id, plant_id |-> plant_id, timestamp |-> timestamp,
     ghi |-> data.ghi, dni |-> data.dni, dhi |-> data.dhi,
     air_temp |-> data.air_temp, cloud_opacity |-> data.cloud_opacity]

\* ReconcileOneInsertOnly: the iteration without the lookup, every point
\* inserted.
ReconcileOneInsertOnly(table, plant_id, data) ==
    LET t == fromisoformat(data.period_end)
    IN  IF t.raised \/ NRead(data) < Len(Measured)
        THEN [raised |-> TRUE, table |-> table]
        ELSE [raised |-> FALSE,
              table |-> table \cup
                {NewForecast(NextId(table), plant_id, t.value, data)}]

\* One iteration of 'for data in forecast_data': the table as the session
\* sees it afterwards, and whether the iteration raised.
ReconcileOne(table, plant_id, data) ==
    LET t == fromisoformat(data.period_end)
        rows == filter_by(table, plant_id, t.value)
        complete == NRead(data) = Len(Measured)
    IN  IF t.raised
        THEN [raised |-> TRUE, table |-> table]
        ELSE IF rows # {}
             THEN [raised |-> ~complete,
                   table |-> (table \ {first(rows)})
                             \cup {Overwrite(first(rows), data)}]
             ELSE IF complete
                  THEN [raised |-> FALSE,
                        table |-> table \cup
                          {NewForecast(NextId(table), plant_id, t.value, data)}]
                  ELSE [raised |-> TRUE, table |-> table]

\* ReconcileFromSkipping: best-effort parsing, a point that raises is
\* skipped and the loop goes on.
RECURSIVE ReconcileFromSkipping(_, _, _, _)
ReconcileFromSkipping(table, plant_id, points, k) ==
    IF k > Len(points)
    THEN [raised |-> FALSE, table |-> table, done |-> k - 1]
    ELSE LET r == ReconcileOne(table, plant_id, points[k])
         IN  ReconcileFromSkipping(IF r.raised THEN table ELSE r.table,
                                   plant_id, points, k + 1)

\* 'for data in forecast_data' over the list points, from element k on:
\* the loop stops at the first iteration that raises.  done counts the
\* iterations that completed.
RECURSIVE ReconcileFrom(_, _, _, _)
ReconcileFrom(table, plant_id, points, k) ==
    IF k > Len(points)
    THEN [raised |-> FALSE, table |-> table, done |-> k - 1]
    ELSE LET r == ReconcileOne(table, plant_id, points[k])
         IN  IF r.raised
             THEN [raised |-> TRUE, table |-> r.table, done |-> k - 1]
             ELSE ReconcileFrom(r.table, plant_id, points, k + 1)

\* ReconcileReplacing: the plant's rows are deleted before the new points
\* are written.
ReconcileReplacing(table, plant_id, points) ==
    ReconcileFrom({ r \in table : r.plant_id # plant_id }, plant_id, points, 1)

Reconcile(table, plant_id, points) ==
    ReconcileFrom(table, plant_id, points, 1)

\* A point that makes an iteration raise: a missing field, or a period_end
\* that does not parse.
Malformed(data) ==
    \/ fromisoformat(data.period_end).raised
    \/ \E k \in 1..Len(Measured) : Measured[k] \notin DOMAIN data

HasMalformed(points) == \E k \in 1..Len(points) : Malformed(points[k])

\* The (plant, timestamp) keys of the first n points of a list.
Keys(plant_id, points, n) ==
    { <<plant_id, fromisoformat(points[k].period_end).value>> : k \in 1..n }

-----------------------------------------------------------------------------
(* Plant directory *)

\* The directory holds two plants.
PlantIds == {1, 2}

\* A Plant row: the columns the passes read.
Plant(id, size, panel_angle, panel_azimuth) ==
    [id |-> id, size |-> size, panel_angle |-> panel_angle,
     panel_azimuth |-> panel_azimuth]

\* A Plant row with the column defaults panel_angle = 30, panel_azimuth = 180.
DefaultPlant(id) == Plant(id, 10, 30, 180)

NoCalls == [p \in PlantIds |-> 0]
NothingGot == [p \in PlantIds |-> "not called"]

\* How a provider call ended, for the history: requests.get raised, the
\* status was not 200, the body had no 'forecasts', or a list came back.
Ending(response) ==
    IF response.status = 0 THEN "no response"
    ELSE IF response.status # 200 THEN "bad status"
    ELSE IF "forecasts" \notin DOMAIN response.body THEN "bad body"
    ELSE "forecasts"

\* Two invocations of update_forecast_data that can overlap in time, each
\* with a db.session of its own.
Runs == {"a", "b"}

\* A run that has not started: no position in the loops, nothing fetched
\* and nothing pending in its session.
NotStarted == [pc |-> "idle", i |-> 0, todo |-> <<>>, written |-> {}]
NoRuns == [run \in Runs |-> NotStarted]

-----------------------------------------------------------------------------
(* update_forecast_data *)

Init ==
    /\ plants = [p \in PlantIds |-> DefaultPlant(p)]
    /\ forecast = {}
    /\ session = {}
    /\ performance = {}
    /\ perf_session = {}
    /\ pc = "idle"
    /\ i = 0
    /\ malformed = FALSE
    /\ today = 0
    /\ calls = NoCalls
    /\ got = NothingGot
    /\ touched = {}
    /\ outcome = "none"
    /\ sync_passes = 0
    /\ perf_passes = [d \in 0..MaxDay |-> 0]
    /\ runs = NoRuns

\* plants = Plant.query.all(); the loop starts at the first plant.
StartSync ==
    /\ pc = "idle"
    /\ sync_passes < MaxSyncPasses
    /\ sync_passes' = sync_passes + 1
    /\ pc' = IF Len(plants) > 0 THEN "sync" ELSE "commit"
    /\ i' = 1
    /\ malformed' = FALSE
    /\ calls' = NoCalls
    /\ got' = NothingGot
    /\ touched' = {}
    /\ outcome' = "running"
    /\ UNCHANGED <<plants, forecast, session, performance, perf_session,
                   today, perf_passes, runs>>

\* AfterPlantRetrying: a plant whose provider call gave nothing is called
\* once more before the loop moves on.
AfterPlantRetrying(at, end) ==
    IF /\ pc = "sync"
       /\ calls[plants[i].id] = 0
       /\ got'[plants[i].id] # "forecasts"
    THEN pc' = at /\ i' = i
    ELSE /\ pc' = IF i < Len(plants) THEN at ELSE end
         /\ i' = IF i < Len(plants) THEN i + 1 ELSE i

\* The position after the iteration for plants[i] ends normally.
AfterPlant(at, end) ==
    /\ pc' = IF i < Len(plants) THEN at ELSE end
    /\ i' = IF i < Len(plants) THEN i + 1 ELSE i

\* One iteration of 'for plant in plants' of update_forecast_data: the
\* provider call and, when it returned a non-empty list, the inner loop.
\* commits says whether the iteration ends with a db.session.commit().
SyncIteration(commits) ==
    /\ pc = "sync"
    /\ \E response \in Responses :
        \E result \in {get_solcast_forecast(response)} :
        \E r \in {Reconcile(session, plants[i].id, result.value)} :
        LET plant == plants[i]
        IN  /\ calls' = [calls EXCEPT ![plant.id] = @ + 1]
            /\ got' = [got EXCEPT ![plant.id] = Ending(response)]
            /\ malformed' = HasMalformed(result.value)
            /\ IF result.raised
               THEN /\ pc' = "raised"
                    /\ outcome' = "fetch raised"
                    /\ UNCHANGED <<i, forecast, session, touched>>
               ELSE IF Truthy(result)
                    THEN /\ session' = r.table
                         /\ touched' = touched \cup
                                Keys(plant.id, result.value, r.done)
                         /\ IF r.raised
                            THEN /\ pc' = "raised"
                                 /\ outcome' = "reconcile raised"
                                 /\ UNCHANGED <<i, forecast>>
                            ELSE /\ AfterPlant("sync", "commit")
                                 /\ forecast' = IF commits THEN r.table
                                                ELSE forecast
                                 /\ UNCHANGED outcome
                    ELSE /\ AfterPlant("sync", "commit")
                         /\ UNCHANGED <<forecast, session, touched, outcome>>
    /\ UNCHANGED <<plants, performance, perf_session, today, sync_passes,
                   perf_passes, runs>>

\* SyncPlantCommitting: line 108 indented into the loop over the plants.
SyncPlantCommitting == SyncIteration(TRUE)

\* The iteration as written: the only commit follows the loop.
SyncPlant == SyncIteration(FALSE)

\* db.session.commit() after the loop: everything pending becomes visible
\* at once, or the commit fails and raises.
Commit ==
    /\ pc = "commit"
    /\ \E ok \in BOOLEAN :
        IF ok
        THEN /\ forecast' = session
             /\ performance' = perf_session
             /\ pc' = "idle"
             /\ outcome' = "committed"
        ELSE /\ pc' = "raised"
             /\ outcome' = "commit raised"
             /\ UNCHANGED <<forecast, performance>>
    /\ UNCHANGED <<plants, session, perf_session, i, malformed, today,
                   calls, got, touched, sync_passes, perf_passes, runs>>

\* An exception leaves the pass before its commit: the session is removed
\* with the application context and its pending changes are rolled back.
Raised ==
    /\ pc = "raised"
    /\ session' = forecast
    /\ perf_session' = performance
    /\ pc' = "idle"
    /\ UNCHANGED <<plants, forecast, performance, i, malformed, today,
                   calls, got, touched, outcome, sync_passes, perf_passes,
                   runs>>

Next == StartSync \/ SyncPlant \/ Commit \/ Raised

Spec == Init /\ [][Next]_vars

-----------------------------------------------------------------------------
(* update_forecast_data, two invocations overlapping *)

\* The Forecast table as the session of a run sees it: the committed rows,
\* with the rows the run has inserted or overwritten, which are pending in
\* its own transaction, in place of them.
View(run) ==
    { r \in forecast : \A w \in runs[run].written : w.id # r.id }
    \cup runs[run].written

\* Every row the database has given an id to, committed or pending in the
\* transaction of some run: the id sequence is shared by the sessions.
Numbered == forecast \cup UNION { runs[run].written : run \in Runs }

\* What no step of a run changes: the directory, the PlantPerformance table
\* and the state of the passes that run alone.
Apart == <<plants, session, performance, perf_session, pc, i, malformed,
           today, calls, got, touched, outcome, sync_passes, perf_passes>>

\* plants = Plant.query.all() of a run.
ConcStart(run) ==
    /\ runs[run].pc = "idle"
    /\ runs' = [runs EXCEPT ![run].pc = "fetch", ![run].i = 1]
    /\ UNCHANGED <<forecast, Apart>>

\* The position of a run after the iteration for its plant has ended.
ConcAfterPlant(run) ==
    IF runs[run].i < Len(plants)
    THEN [runs[run] EXCEPT !.pc = "fetch", !.i = @ + 1, !.todo = <<>>]
    ELSE [runs[run] EXCEPT !.pc = "commit", !.todo = <<>>]

\* forecast_data = get_solcast_forecast(...) of a run for its plant, and
\* 'if forecast_data:'.  The provider answers with a list of well-formed
\* points.
ConcFetch(run) ==
    /\ runs[run].pc = "fetch"
    /\ \E points \in SeqsUpTo(WellFormedPoints, MaxLen) :
        runs' = [runs EXCEPT ![run] =
                    IF Len(points) > 0
                    THEN [@ EXCEPT !.pc = "point", !.todo = points]
                    ELSE ConcAfterPlant(run)]
    /\ UNCHANGED <<forecast, Apart>>

\* One iteration of 'for data in forecast_data' of a run: the lookup in
\* what the session of the run sees, then the overwrite of the row found or
\* the insert of a new row, pending until the commit of the run.
ConcPoint(run) ==
    /\ runs[run].pc = "point"
    /\ LET me == runs[run]
           plant == plants[me.i]
           data == Head(me.todo)
           t == fromisoformat(data.period_end)
           rows == filter_by(View(run), plant.id, t.value)
           row == IF rows # {}
                  THEN Overwrite(first(rows), data)
                  ELSE NewForecast(NextId(Numbered), plant.id, t.value, data)
           wrote == [me EXCEPT !.todo = Tail(@),
                               !.written = { w \in @ : w.id # row.id }
                                           \cup {row}]
       IN  runs' = [runs EXCEPT ![run] =
                       IF Len(me.todo) > 1
                       THEN wrote
                       ELSE [ConcAfterPlant(run) EXCEPT
                                !.written = wrote.written]]
    /\ UNCHANGED <<forecast, Apart>>

\* db.session.commit() of a run: its pending rows become visible to every
\* session.
ConcCommit(run) ==
    /\ runs[run].pc = "commit"
    /\ forecast' = View(run)
    /\ runs' = [runs EXCEPT ![run].pc = "done", ![run].written = {}]
    /\ UNCHANGED Apart

ConcNext ==
    \/ \E run \in Runs : ConcStart(run)
    \/ \E run \in Runs : ConcFetch(run)
    \/ \E run \in Runs : ConcPoint(run)
    \/ \E run \in Runs : ConcCommit(run)

ConcSpec == Init /\ [][ConcNext]_vars

-----------------------------------------------------------------------------
(* Properties of the sync pass *)

Key(r) == <<r.plant_id, r.timestamp>>
KeysOf(table) == { Key(r) : r \in table }
PassEnded == pc = "idle" /\ outcome # "none"
FetchFailed(p) == got[p] \in {"no response", "bad status", "bad body"}
WellFormedLists == SeqsUpTo(WellFormedPoints, MaxLen)

\* C1: when the provider fetch fails for exactly one plant of the directory
\* (and nothing else fails), the pass has called the provider for every
\* plant and ends with its commit, so that every point reconciled for the
\* other plants is in the committed Forecast table.
C1_PartialFailureIsolation ==
    ( /\ PassEnded
      /\ Cardinality({ p \in PlantIds : FetchFailed(p) }) = 1
      /\ outcome \notin {"reconcile raised", "commit raised"} )
    => /\ \A p \in PlantIds : calls[p] = 1
       /\ outcome = "committed"
       /\ touched \subseteq KeysOf(forecast)

\* C2: the committed Forecast table and the table as the session sees it
\* hold at most one row per (plant, timestamp), in every state of every
\* sequence of sync passes.
KeyUnique(table) == \A r, q \in table : Key(r) = Key(q) => r = q
C2_KeyUnique == KeyUnique(forecast) /\ KeyUnique(session)

\* A second pass has reconciled a timestamp that the first one committed,
\* and the committed table holds rows of both plants.
C2_Witness ==
    /\ sync_passes = 2
    /\ PassEnded /\ outcome = "committed"
    /\ touched \cap KeysOf(forecast) # {}
    /\ \A p \in PlantIds : \E r \in forecast : r.plant_id = p
    /\ \E r \in forecast : r.id # 1 /\ r.ghi = V2.ghi

\* C3: from every table the session can hold, reconciling a well-formed
\* list of points for a plant twice gives the same table (the same rows with
\* the same field values) as reconciling it once.
C3_Idempotent ==
    pc = "sync" =>
        \A p \in PlantIds : \A points \in WellFormedLists :
            LET once == Reconcile(session, p, points).table
            IN  Reconcile(once, p, points).table = once

\* A pass is at a plant some list of which both updates a stored row and
\* inserts a new one.
C3_Witness ==
    /\ pc = "sync"
    /\ \E points \in WellFormedLists :
        LET once == Reconcile(session, plants[i].id, points).table
        IN  /\ \E r \in session : r \notin once
            /\ Cardinality(once) > Cardinality(session)

\* C4: the committed Forecast table changes only in the commit that ends a
\* pass, and then to everything the pass wrote; a step that raises and the
\* rollback after it leave the committed table as it was.
C4_Atomic ==
    [][ /\ forecast' # forecast =>
            (pc = "commit" /\ pc' = "idle" /\ forecast' = session)
        /\ (pc' = "raised" \/ pc = "raised") => forecast' = forecast ]_vars

\* A pass has raised in the middle of a list, after the session has written
\* rows that the committed table does not hold.
C4_Witness ==
    /\ pc = "raised"
    /\ outcome = "reconcile raised"
    /\ session # forecast
    /\ forecast # {}

C7_NeverDeleted ==
    [][ \A r \in forecast :
            \E q \in forecast' :
                /\ q.id = r.id /\ Key(q) = Key(r)
                /\ Key(r) \notin touched => q = r ]_vars

\* A pass has committed new points for a plant, none of them for a
\* timestamp the plant already had a row for.
C7_Witness ==
    /\ PassEnded /\ outcome = "committed"
    /\ sync_passes = 2
    /\ \E r \in forecast :
        /\ Key(r) \notin touched
        /\ \E k \in touched : k[1] = r.plant_id

-----------------------------------------------------------------------------
(* Output estimator: the body of the loop of calculate_plant_performance *)

\* Fixed-point unit of the trigonometric values.
TrigScale == 100
\* 0.15, the panel efficiency, in percent.
Efficiency == 15
\* timedelta(days=1), in hours.
HoursPerDay == 24

Abs(x) == IF x < 0 THEN 0 - x ELSE x

\* A NULL in a float column of a Plant row (panel_angle and panel_azimuth
\* are nullable), which the ORM loads as None.  It stands outside every
\* range of degrees the model uses.
Null == 0 - 1000

\* floor(TrigScale * math.sin(math.radians(deg)))
Sin(deg) ==
    CASE deg = 0 -> 0
      [] deg = 30 -> 49
      [] deg = 90 -> 100
      [] deg = 120 -> 86

\* floor(TrigScale * math.cos(math.radians(deg)))
Cos(deg) ==
    CASE deg = 0 -> 100
      [] deg = 30 -> 86
      [] deg = 90 -> 0
      [] deg = 120 -> 0 - 50
      [] deg = 180 -> 0 - 100
      [] deg = 270 -> 0 - 1
      [] deg = 360 -> 100

\* WindowClosed: the window with its upper end included.
WindowClosed(table, plant, day) ==
    { f \in table : /\ f.plant_id = plant.id
                    /\ f.timestamp >= day * HoursPerDay
                    /\ f.timestamp <= (day + 1) * HoursPerDay }

\* Forecast.query.filter(plant_id == plant.id, timestamp >= today,
\* timestamp < today + timedelta(days=1)).all()
Window(table, plant, day) ==
    { f \in table : /\ f.plant_id = plant.id
                    /\ f.timestamp >= day * HoursPerDay
                    /\ f.timestamp < (day + 1) * HoursPerDay }

\* TermFromSouth: the azimuth taken from south instead of north, which
\* reverses the sign of its cosine.
TermFromSouth(f, plant) ==
    ( 20 * f.dni * Abs(Sin(plant.panel_angle)) * (0 - Cos(plant.panel_azimuth))
    + 10 * f.dhi * (TrigScale + Cos(plant.panel_angle)) * TrigScale
    + 2 * f.ghi * (TrigScale - Cos(plant.panel_angle)) * TrigScale )
    * plant.size * Efficiency

\* One term of the sum: (dni * |sin(tilt)| * cos(azimuth)
\* + dhi * (1 + cos(tilt)) / 2 + ghi * 0.2 * (1 - cos(tilt)) / 2)
\* * size * 0.15, in units of 1 / (2 * 10^8) kWh.
Term(f, plant) ==
    ( 20 * f.dni * Abs(Sin(plant.panel_angle)) * Cos(plant.panel_azimuth)
    + 10 * f.dhi * (TrigScale + Cos(plant.panel_angle)) * TrigScale
    + 2 * f.ghi * (TrigScale - Cos(plant.panel_angle)) * TrigScale )
    * plant.size * Efficiency

\* sum(... for f in forecasts) / 1000: 0 for no forecasts.
RECURSIVE total_energy(_, _)
total_energy(forecasts, plant) ==
    IF forecasts = {}
    THEN 0
    ELSE LET f == CHOOSE x \in forecasts : TRUE
         IN  Term(f, plant) + total_energy(forecasts \ {f}, plant)

\* Whether the sum raises: math.radians(None) is a TypeError, evaluated once
\* for every forecast of the window, so never for an empty window.
Raises(plant, forecasts) ==
    /\ forecasts # {}
    /\ (plant.panel_angle = Null \/ plant.panel_azimuth = Null)

\* AddUpsert: a row replacing the rows of the same plant and date.
AddUpsert(table, plant, day, forecasts) ==
    { r \in table : ~(r.plant_id = plant.id /\ r.date = day) }
    \cup { [id |-> NextId(table), plant_id |-> plant.id, date |-> day,
            expected_output |-> total_energy(forecasts, plant)] }

\* AddUnlessEmpty: no row for a plant without forecasts in the window.
AddUnlessEmpty(table, plant, day, forecasts) ==
    IF forecasts = {}
    THEN table
    ELSE table \cup { [id |-> NextId(table), plant_id |-> plant.id,
                       date |-> day,
                       expected_output |-> total_energy(forecasts, plant)] }

\* performance = PlantPerformance(plant_id, date, expected_output);
\* db.session.add(performance): always one new row.
Add(table, plant, day, forecasts) ==
    table \cup { [id |-> NextId(table), plant_id |-> plant.id, date |-> day,
                  expected_output |-> total_energy(forecasts, plant)] }

-----------------------------------------------------------------------------
(* calculate_plant_performance *)

\* Panel geometries of the plants: (size, panel_angle, panel_azimuth).  The
\* columns are unconstrained floats, so values outside tilt in [0, 90],
\* azimuth in [0, 360), area > 0 can be stored, and the two angles can be
\* NULL.
Geometries ==
    { <<10, 30, 180>>, <<10, 30, 0>>, <<10, 90, 270>>, <<10, 0, 90>>,
      <<10, 120, 0>>, <<10, 30, 360>>, <<0, 30, 0>>, <<10, Null, 180>> }

\* The second plant takes fewer of them.
SomeGeometries ==
    { <<10, 30, 180>>, <<10, 30, 0>>, <<0, 30, 0>>, <<10, 30, Null>> }

ValidGeometry(plant) ==
    /\ plant.panel_angle >= 0 /\ plant.panel_angle <= 90
    /\ plant.panel_azimuth >= 0 /\ plant.panel_azimuth < 360
    /\ plant.size > 0

\* A point with a negative irradiance value, which the code stores as it
\* stores any other.
V3 == [ghi |-> 0, dni |-> 0, dhi |-> 0 - 1, air_temp |-> 0 - 5,
       cloud_opacity |-> 100]

\* Forecast tables a sync pass leaves behind.
SyncedForecasts ==
    { Reconcile(Reconcile({}, 1, a).table, 2, b).table :
        a, b \in SeqsUpTo(WellFormedPoints
                           \cup {WirePoint("2024-01-01T00:00:00", V3)},
                         MaxLen) }

PerfInit ==
    /\ plants \in { <<Plant(1, g[1], g[2], g[3]), Plant(2, h[1], h[2], h[3])>> :
                      g \in Geometries, h \in SomeGeometries }
    /\ forecast \in SyncedForecasts
    /\ session = forecast
    /\ performance = {}
    /\ perf_session = {}
    /\ pc = "idle"
    /\ i = 0
    /\ malformed = FALSE
    /\ today = 0
    /\ calls = NoCalls
    /\ got = NothingGot
    /\ touched = {}
    /\ outcome = "none"
    /\ sync_passes = 0
    /\ perf_passes = [d \in 0..MaxDay |-> 0]
    /\ runs = NoRuns

\* today = datetime.now().date(); plants = Plant.query.all().  The clock
\* never runs backwards.
StartPerf ==
    /\ pc = "idle"
    /\ \E d \in today..MaxDay :
        /\ perf_passes[d] < MaxPerfPasses
        /\ today' = d
    /\ pc' = IF Len(plants) > 0 THEN "perf" ELSE "perf commit"
    /\ i' = 1
    /\ outcome' = "running"
    /\ UNCHANGED <<plants, forecast, session, performance, perf_session,
                   malformed, calls, got, touched, sync_passes,
                   perf_passes, runs>>

\* One iteration of 'for plant in plants' of calculate_plant_performance:
\* the window query, the sum and the new row, or the exception of the sum,
\* which nothing catches.
PerfPlant ==
    /\ pc = "perf"
    /\ \E forecasts \in {Window(session, plants[i], today)} :
        IF Raises(plants[i], forecasts)
        THEN /\ pc' = "raised"
             /\ outcome' = "estimate raised"
             /\ UNCHANGED <<i, perf_session>>
        ELSE /\ perf_session' = Add(perf_session, plants[i], today, forecasts)
             /\ AfterPlant("perf", "perf commit")
             /\ UNCHANGED outcome
    /\ UNCHANGED <<plants, forecast, session, performance, malformed,
                   today, calls, got, touched, sync_passes, perf_passes,
                   runs>>

\* db.session.commit() of calculate_plant_performance.
PerfCommit ==
    /\ pc = "perf commit"
    /\ \E ok \in BOOLEAN :
        IF ok
        THEN /\ forecast' = session
             /\ performance' = perf_session
             /\ perf_passes' = [perf_passes EXCEPT ![today] = @ + 1]
             /\ pc' = "idle"
             /\ outcome' = "committed"
        ELSE /\ pc' = "raised"
             /\ outcome' = "commit raised"
             /\ UNCHANGED <<forecast, performance, perf_passes>>
    /\ UNCHANGED <<plants, session, perf_session, i, malformed, today,
                   calls, got, touched, sync_passes, runs>>

PerfNext == StartPerf \/ PerfPlant \/ PerfCommit \/ Raised

PerfSpec == PerfInit /\ [][PerfNext]_vars

-----------------------------------------------------------------------------
(* Properties of the performance pass *)

Days == 0..MaxDay
RowsFor(table, p, d) == { r \in table : r.plant_id = p /\ r.date = d }
NonNegative(forecasts) ==
    \A f \in forecasts : f.ghi >= 0 /\ f.dni >= 0 /\ f.dhi >= 0

\* C6: the committed PlantPerformance table holds, for every plant and
\* date, exactly as many rows as performance passes have committed for that
\* date; every iteration of a pass that computes an estimate adds exactly
\* one row and no step changes or removes a committed row.
C6_Appended ==
    /\ [](\A p \in PlantIds : \A d \in Days :
            Cardinality(RowsFor(performance, p, d)) = perf_passes[d])
    /\ [][ /\ performance \subseteq performance'
           /\ (pc = "perf" /\ pc' # "raised") =>
                /\ perf_session \subseteq perf_session'
                /\ Cardinality(perf_session' \ perf_session) = 1 ]_vars

\* Two passes have committed for the same date.
C6_Witness ==
    /\ pc = "idle"
    /\ \E d \in Days :
        /\ perf_passes[d] = 2
        /\ \A p \in PlantIds : Cardinality(RowsFor(performance, p, d)) = 2

\* C8: for a plant with no Forecast row in the window of a date, every
\* PlantPerformance row of that plant and date has expected_output 0, and
\* once a pass has committed for the date there is such a row.
C8_EmptyWindow ==
    \A p \in PlantIds : \A d \in Days :
        Window(forecast, plants[p], d) = {} =>
            /\ \A r \in RowsFor(performance \cup perf_session, p, d) :
                    r.expected_output = 0
            /\ perf_passes[d] > 0 => RowsFor(performance, p, d) # {}

\* A pass has committed a row for a plant without a Forecast row in the
\* window, and a row with another value for the other plant.
C8_Witness ==
    \E p \in PlantIds : \E d \in Days :
        /\ Window(forecast, plants[p], d) = {}
        /\ RowsFor(performance, p, d) # {}
        /\ \E r \in performance : r.date = d /\ r.expected_output # 0

\* C9 as claimed: every row computed for a plant with tilt in [0, 90],
\* azimuth in [0, 360) and area > 0 from forecasts without a negative
\* irradiance has an expected_output that is not negative.
C9_NonNegativeAsClaimed ==
    \A r \in performance \cup perf_session :
        ( /\ ValidGeometry(plants[r.plant_id])
          /\ NonNegative(Window(forecast, plants[r.plant_id], r.date)) )
        => r.expected_output >= 0

\* C9 as amended: the same for the plants the cosine of whose azimuth, as
\* the code computes it, is not negative.
C9_NonNegative ==
    \A r \in performance \cup perf_session :
        ( /\ ValidGeometry(plants[r.plant_id])
          /\ Cos(plants[r.plant_id].panel_azimuth) >= 0
          /\ NonNegative(Window(forecast, plants[r.plant_id], r.date)) )
        => r.expected_output >= 0

\* A row with a positive value has been computed for a tilted plant facing
\* north from a forecast with direct irradiance.
C9_Witness ==
    \E r \in performance :
        /\ ValidGeometry(plants[r.plant_id])
        /\ plants[r.plant_id].panel_azimuth = 0
        /\ plants[r.plant_id].panel_angle = 30
        /\ NonNegative(Window(forecast, plants[r.plant_id], r.date))
        /\ \E f \in Window(forecast, plants[r.plant_id], r.date) : f.dni > 0
        /\ r.expected_output > 0

\* C10: no PlantPerformance row is written for a plant whose tilt, azimuth
\* or area is out of range, and the other plants have their row for every
\* committed pass.
C10_GeometryValidated ==
    /\ \A r \in performance \cup perf_session :
            ValidGeometry(plants[r.plant_id])
    /\ \A p \in PlantIds : \A d \in Days :
            ValidGeometry(plants[p]) =>
                Cardinality(RowsFor(performance, p, d)) = perf_passes[d]

\* C11: when the estimate of one plant has raised in a performance pass, the
\* pass has still ended with its commit, and the committed PlantPerformance
\* table holds a row of this pass for every other plant and the date of the
\* pass: one row more than the passes that committed for that date before.
C11_PerfFailureIsolation ==
    (PassEnded /\ outcome = "estimate raised") =>
        \A p \in PlantIds \ {plants[i].id} :
            Cardinality(RowsFor(performance, p, today)) > perf_passes[today]

\* C12: when two overlapping sync passes have both committed, the committed
\* Forecast table holds at most one row for every (plant, timestamp).
C12_ConcurrentKeyUnique ==
    (\A run \in Runs : runs[run].pc = "done") => KeyUnique(forecast)

\* The calendar date a timestamp falls on.
DateOf(timestamp) == timestamp \div HoursPerDay

\* C13: the expected_output of every PlantPerformance row is the sum of the
\* estimator's terms over exactly the Forecast rows of the row's plant whose
\* timestamp falls on the row's date: a row at 00:00 of the date counts, a
\* row at 00:00 of the next date does not, and no row of another plant does.
C13_HalfOpenWindow ==
    \A r \in performance \cup perf_session :
        r.expected_output =
            total_energy({ f \in forecast : /\ f.plant_id = r.plant_id
                                            /\ DateOf(f.timestamp) = r.date },
                         plants[r.plant_id])

\* A row has been committed for date 0 and a plant that has a Forecast row
\* at 00:00 of date 0 and one at 00:00 of date 1, while the other plant has
\* Forecast rows too: the row's value is the term of the first alone, and
\* the term of the second is not 0.
C13_Witness ==
    \E r \in performance : \E f, g, h \in forecast :
        /\ r.date = 0
        /\ f.plant_id = r.plant_id /\ f.timestamp = 0
        /\ g.plant_id = r.plant_id /\ g.timestamp = HoursPerDay
        /\ h.plant_id # r.plant_id /\ h.timestamp = 0
        /\ Term(g, plants[r.plant_id]) # 0
        /\ Term(h, plants[r.plant_id]) # 0
        /\ r.expected_output = Term(f, plants[r.plant_id])
        /\ \E q \in performance :
            /\ q.plant_id = r.plant_id /\ q.date = 1
            /\ q.expected_output = Term(g, plants[r.plant_id])

\* Whether a row holds the five measured values of a point.
SameMeasured(row, data) ==
    \A k \in 1..Len(Measured) : row[Measured[k]] = data[Measured[k]]

\* C14: from every table the session can hold, after an iteration that
\* reconciled a point for a plant without raising, the lookup of (plant,
\* timestamp of the point) finds a row with the five measured values of the
\* point; when a row was there before, it is that row, with its id, plant
\* and timestamp, and no row has been added.  After a whole list, the lookup
\* of each of its keys finds the values of the last point with that key.
C14_UpsertRoundTrip ==
    pc = "sync" =>
        \A p \in PlantIds :
            /\ \A data \in Points :
                LET r == ReconcileOne(session, p, data)
                    t == fromisoformat(data.period_end).value
                    before == filter_by(session, p, t)
                    after == filter_by(r.table, p, t)
                IN  ~r.raised =>
                        /\ after # {}
                        /\ SameMeasured(first(after), data)
                        /\ before # {} =>
                            /\ first(after).id = first(before).id
                            /\ Key(first(after)) = Key(first(before))
                            /\ Cardinality(r.table) = Cardinality(session)
                        /\ before = {} =>
                            Cardinality(r.table) = Cardinality(session) + 1
            /\ \A points \in WellFormedLists :
                LET r == Reconcile(session, p, points)
                    T(k) == fromisoformat(points[k].period_end).value
                IN  \A k \in 1..Len(points) :
                        (\A j \in (k + 1)..Len(points) : T(j) # T(k)) =>
                            SameMeasured(first(filter_by(r.table, p, T(k))),
                                         points[k])

\* A pass is at a plant for which the session holds a row whose values
\* differ from those of a point with its timestamp (the update path), and
\* no row for the timestamp of another point (the insert path).
C14_Witness ==
    /\ pc = "sync"
    /\ \E data, other \in WellFormedPoints :
        LET t == fromisoformat(data.period_end).value
            rows == filter_by(session, plants[i].id, t)
        IN  /\ rows # {}
            /\ ~SameMeasured(first(rows), data)
            /\ first(rows).cloud_opacity # data.cloud_opacity
            /\ filter_by(session, plants[i].id,
                         fromisoformat(other.period_end).value) = {}

\* C15: in every state of a sync pass the provider has been called at most
\* once for every plant, whatever the calls returned; a step calls the
\* provider for one plant only, one that this pass has not called it for,
\* and a plant whose call failed is called again only after a later pass has
\* started.
C15_NoRetry ==
    /\ [](\A p \in PlantIds : calls[p] <= 1)
    /\ [][ \A p \in PlantIds :
            /\ calls'[p] > calls[p] =>
                /\ pc = "sync" /\ calls[p] = 0 /\ calls'[p] = 1
                /\ \A q \in PlantIds \ {p} : calls'[q] = calls[q]
            /\ (FetchFailed(p) /\ calls'[p] # calls[p]) =>
                (pc = "idle" /\ sync_passes' = sync_passes + 1
                 /\ calls'[p] = 0) ]_vars

\* A second pass has ended with its commit after the call for plant 1 came
\* back with a bad status: every plant was called once in it, and the
\* committed table holds rows of plant 2 alone.
C15_Witness ==
    /\ sync_passes = 2
    /\ PassEnded /\ outcome = "committed"
    /\ \A p \in PlantIds : calls[p] = 1
    /\ got[1] = "bad status"
    /\ got[2] = "forecasts"
    /\ forecast # {}
    /\ \A r \in forecast : r.plant_id = 2

\* The rows of a table that belong to other plants than p.
Others(table, p) == { r \in table : r.plant_id # p }

\* C16: the iteration of a sync pass for a plant leaves every row of every
\* other plant in the session as it was and adds no row for another plant;
\* and from every table the session can hold, reconciling any list for a
\* plant, also one that raises midway, changes rows of that plant only.
C16_CrossPlantFrame ==
    /\ [][ pc = "sync" =>
            Others(session', plants[i].id)
                = Others(session, plants[i].id) ]_vars
    /\ [](pc = "sync" =>
            \A p \in PlantIds : \A points \in SeqsUpTo(Points, MaxLen) :
                Others(Reconcile(session, p, points).table, p)
                    = Others(session, p))

\* The second plant's iteration has reconciled a point with a timestamp the
\* first plant has a row for, with other values: the session holds both
\* rows, each with the values of its own plant's point.
C16_Witness ==
    /\ pc = "commit"
    /\ \E r, q \in session :
        /\ r.plant_id = 1 /\ q.plant_id = 2
        /\ r.timestamp = q.timestamp
        /\ Key(r) \in touched /\ Key(q) \in touched
        /\ r.ghi = V1.ghi /\ q.ghi = V2.ghi
        /\ r \in forecast /\ q \notin forecast

====
